---- MODULE Spec2Model ----
(***************************************************************************)
(* go-disruptor: single-writer ring buffer with a pipeline of reader       *)
(* groups (Disruptor, SingleReader, BatchReader, MinimumBarrier,           *)
(* CompositeClosedBarrier, Closer).                                        *)
(*                                                                         *)
(* One step of the model is one access to shared memory (an atomic load or *)
(* store of a cursor or close flag, or a user callback touching the        *)
(* buffer) together with the thread-local computation that follows it.     *)
(***************************************************************************)
EXTENDS Integers, Sequences, FiniteSets, TLC

\* Total number of items the writer publishes in one behaviour.
MaxWrites == 6

\* Width of the machine word the branchless arithmetic is evaluated in
\* (int64 in the source, scaled down; no modelled value comes near 2^(w-1)).
WordBits == 6

\* Capacities and reader topologies the disruptor is built with.  A topology
\* is the sequence of group sizes handed to WithReaderGroup, in order.
Capacities == {1, 2, 4}
Topologies == {<<1>>, <<2, 1>>, <<1, 2>>}

\* Number of items published in a behaviour that calls WriteBatch with
\* arguments beyond the documented range.
MaxArgWrites == 3

\* Arguments a caller may hand to WriteBatch beyond the documented range.
MinBatchArg == 0 - 1

-----------------------------------------------------------------------------
\* Two's-complement arithmetic on WordBits-bit words.

Pow2(k) == 2 ^ k

ToUnsigned(x) == x % Pow2(WordBits)

ToSigned(u) == IF u >= Pow2(WordBits - 1) THEN u - Pow2(WordBits) ELSE u

RECURSIVE AndBits(_, _, _)
AndBits(a, b, k) ==
    IF k = 0 THEN 0
    ELSE (a % 2) * (b % 2) + 2 * AndBits(a \div 2, b \div 2, k - 1)

RECURSIVE OrBits(_, _, _)
OrBits(a, b, k) ==
    IF k = 0 THEN 0
    ELSE (IF (a % 2) + (b % 2) > 0 THEN 1 ELSE 0)
         + 2 * OrBits(a \div 2, b \div 2, k - 1)

\* The signed words.
Word == (0 - Pow2(WordBits - 1))..(Pow2(WordBits - 1) - 1)

\* The bitwise operations, tabulated once over the words.
AndTable ==
    [x \in Word |-> [y \in Word |->
        ToSigned(AndBits(ToUnsigned(x), ToUnsigned(y), WordBits))]]

OrTable ==
    [x \in Word |-> [y \in Word |->
        ToSigned(OrBits(ToUnsigned(x), ToUnsigned(y), WordBits))]]

\* x & y
BitAnd(x, y) == AndTable[x][y]

\* x | y
BitOr(x, y) == OrTable[x][y]

\* ^x
BitNot(x) == 0 - x - 1

\* x >> 63 on int64: the arithmetic shift by (word width - 1).
SignMask(x) == x \div Pow2(WordBits - 1)

-----------------------------------------------------------------------------
\* Pure functions of the source.

\* ValidCapacity with the test capacity < 0 in place of capacity <= 0.
ValidCapacityAllowsZero(c) == ~(c < 0 \/ BitAnd(c, c - 1) # 0)

\* Builder.validate: the capacity test.
ValidCapacity(c) == ~(c <= 0 \/ BitAnd(c, c - 1) # 0)

\* unwrap with the mask left un-negated: mask is wrap itself, 0 or 1.
unwrapMaskNotNegated(cap, i, j) ==
    LET wrap == BitAnd(SignMask(j - i), 1)
        mask == wrap
        firstLen == BitOr(BitAnd(j - i + 1, BitNot(mask)), BitAnd(cap - i, mask))
        secondLen == BitAnd(j + 1, mask)
    IN  <<firstLen, secondLen>>

\* unwrap(capacity, i, j): the two lengths <<firstLen, secondLen>>.
unwrap(cap, i, j) ==
    LET wrap == BitAnd(SignMask(j - i), 1)
        mask == 0 - wrap
        firstLen == BitOr(BitAnd(j - i + 1, BitNot(mask)), BitAnd(cap - i, mask))
        secondLen == BitAnd(j + 1, mask)
    IN  <<firstLen, secondLen>>

\* The slots a batch callback is handed: len1 slots from &buffer[i], then
\* len2 slots from &buffer[0].
BatchSlots(i, lens) ==
    [k \in 1..(lens[1] + lens[2]) |->
        IF k <= lens[1] THEN i + (k - 1) ELSE k - lens[1] - 1]

\* MinStep with the polarity of the mask inverted: it keeps the larger value.
MinStepInverted(minimum, seq) ==
    LET diff == minimum - seq
        mask == SignMask(diff)
    IN  seq + BitAnd(diff, BitNot(mask))

\* One round of MinimumBarrier.Load's loop: the new running minimum.
MinStep(minimum, seq) ==
    LET diff == minimum - seq
        mask == SignMask(diff)
    IN  seq + BitAnd(diff, mask)

-----------------------------------------------------------------------------
\* State.

VARIABLES
    capacity,       \* Disruptor.capacity (mask = capacity - 1)
    groups,         \* Builder.readerGroups: the size of each group, in order
    buffer,         \* Disruptor.buffer: slot index -> stored item (0: zero value)
    writeCursor,    \* Disruptor.writeCursor (atomic)
    currentWriter,  \* Disruptor.currentWriter: the writer's copy of writeCursor
    slowestReader,  \* Disruptor.slowestReader: the writer's copy of readBarrier
    closer,         \* Disruptor.closer: TRUE when closed
    wpc,            \* where the writer goroutine is
    wop,            \* the call in progress: "none", "Write" or "WriteBatch"
    wn,             \* n of the call in progress
    nextWriter,     \* local nextWriter of Write / WriteBatch
    wload,          \* progress of readBarrier.Load(): <<next index, minimum>>
    werr,           \* the panic the last call ended with, or "none"
    cursor,         \* reader -> its cursor (atomic)
    rcloser,        \* reader -> its closer: TRUE when closed
    rpc,            \* reader -> where its LoopRead goroutine is
    current,        \* reader -> local current
    upstream,       \* reader -> local upstream (running minimum during Load)
    ridx,           \* reader -> next index of the barrier being read
    seq,            \* reader -> local seq of the dispatch loop
    log,            \* reader -> items its callback has seen, as <<sequence, item>>
    args,           \* arguments of a function called on its own (unwrap: <<i, j>>)
    result,         \* what Build, or the function called on its own, returned
    kind,           \* the ring buffer type built: "RingBufferTry", "RingBuffer",
                    \* "SingleProducer", "MultiProducer", or "none"
    size,           \* its size (mask = size - 1)
    ring,           \* its buffer: slot index -> item
    producer,       \* producerSeq / producer (atomic)
    published,      \* MultiProducer.published (atomic)
    consumer,       \* consumerSeq / consumer (atomic)
    ppc,            \* producer goroutine -> where it is in its call
    ploc,           \* producer goroutine -> the locals of its call
    pret,           \* producer goroutine -> what its last TryPublish returned
    pcount,         \* producer goroutine -> number of items it has handed over
    cpc,            \* where the consumer goroutine is in its call
    cloc,           \* the locals of the consumer's call
    cret,           \* what the consumer's last call returned: <<item, ok>>
    pubs,           \* items by sequence number, in the order the numbers were taken
    loadStart,      \* who is loading a barrier (0: the writer) -> the minimum of
                    \* the barrier when its Load in progress started
    got             \* items the consumer's calls returned, in order

wvars == <<buffer, writeCursor, currentWriter, slowestReader, closer, wpc, wop,
           wn, nextWriter, wload, werr>>
rvars == <<cursor, rcloser, rpc, current, upstream, ridx, seq, log>>
qvars == <<kind, size, ring, producer, published, consumer, ppc, ploc, pret,
           pcount, cpc, cloc, cret, pubs, got>>
cvars == <<capacity, groups, args, result, qvars, loadStart>>
vars == <<capacity, groups, buffer, writeCursor, currentWriter, slowestReader,
          closer, wpc, wop, wn, nextWriter, wload, werr, cursor, rcloser, rpc,
          current, upstream, ridx, seq, log, args, result, kind, size, ring,
          producer, published, consumer, ppc, ploc, pret, pcount, cpc, cloc,
          cret, pubs, got, loadStart>>

-----------------------------------------------------------------------------
\* Topology (Builder.wireReaders).

\* ReadBarrierGroup when wireReaders returns the barrier it held before the
\* last group was wired.
GroupBeforeLast == IF Len(groups) > 1 THEN Len(groups) - 1 ELSE Len(groups)

RECURSIVE SumTo(_, _)
SumTo(gs, g) == IF g = 0 THEN 0 ELSE gs[g] + SumTo(gs, g - 1)

NumGroups == Len(groups)

Readers == 1..SumTo(groups, Len(groups))

\* The readers of group g, in declaration order (group 0 is the writer).
Members(g) == [k \in 1..groups[g] |-> SumTo(groups, g - 1) + k]

GroupOf(r) == CHOOSE g \in 1..NumGroups : \E k \in 1..groups[g] : Members(g)[k] = r

\* The ReaderFunc of reader r: readers with an even index read in batches.
IsBatch(r) == r % 2 = 0

mask == capacity - 1

\* The slot of a sequence number.
Slot(s) == BitAnd(s, mask)

\* BarrierAt reading the first cursor of the group whatever the index.
BarrierAtFirst(g, idx) == IF g = 0 THEN writeCursor ELSE cursor[Members(g)[1]]

\* Element idx of the barrier over group g: a cursor of the group, or the
\* write cursor for the writer.
BarrierAt(g, idx) == IF g = 0 THEN writeCursor ELSE cursor[Members(g)[idx]]

BarrierLen(g) == IF g = 0 THEN 1 ELSE groups[g]

\* The value a Load of the barrier over group g would give if it read all
\* its cursors at once.
BarrierMinimum(g) ==
    IF g = 0
    THEN writeCursor
    ELSE CHOOSE m \in {cursor[Members(g)[k]] : k \in 1..groups[g]} :
             \A k \in 1..groups[g] : m <= cursor[Members(g)[k]]

\* loadStart after one step of a Load of the barrier over group g by x that
\* reads index idx: the Load starts with index 1 and ends with the last.
LoadStartAfter(x, g, idx) ==
    [loadStart EXCEPT ![x] =
        IF idx = BarrierLen(g) THEN 0
        ELSE IF idx = 1 THEN BarrierMinimum(g) ELSE loadStart[x]]

\* ClosedAt with the writer's flag compared against openBuffer.
ClosedAtInverted(g, idx) == IF g = 0 THEN ~closer ELSE rcloser[Members(g)[idx]]

\* Element idx of the closed-barrier over group g.
ClosedAt(g, idx) == IF g = 0 THEN closer ELSE rcloser[Members(g)[idx]]

-----------------------------------------------------------------------------
\* validate looking at the reader groups before the capacity.
validateGroupsFirst(c, gs) ==
    IF Len(gs) = 0 THEN "ErrMissingReaderGroup"
    ELSE IF \E g \in 1..Len(gs) : gs[g] = 0 THEN "ErrEmptyReaderGroup"
    ELSE IF ~ValidCapacity(c) THEN "ErrCapacity"
    ELSE "nil"

\* Builder.validate: the error it returns, "nil" for none.
validate(c, gs) ==
    IF ~ValidCapacity(c) THEN "ErrCapacity"
    ELSE IF Len(gs) = 0 THEN "ErrMissingReaderGroup"
    ELSE IF \E g \in 1..Len(gs) : gs[g] = 0 THEN "ErrEmptyReaderGroup"
    ELSE "nil"

\* Builder.Build: the pair <<*Disruptor, error>> it returns.
Build(c, gs) ==
    IF validate(c, gs) # "nil"
    THEN <<"nil", validate(c, gs)>>
    ELSE <<"Disruptor", "nil">>

\* What WithWriterYield / WithReaderYield left in the Builder.
Yields == {"default", "override"}

\* Builder.Build of the Builder with yield overrides: the pair it returns and
\* the writerYield and readerYield it installs ("none" when it returns an
\* error).
BuildWithYields(c, gs, wy, ry) ==
    IF validate(c, gs) # "nil"
    THEN <<"nil", validate(c, gs), "none", "none">>
    ELSE <<"Disruptor", "nil", wy, ry>>

\* The fields of a Disruptor and of its readers as Build leaves them: the
\* buffer allocated, every cursor and close flag at its zero value, no
\* goroutine started.
NewDisruptor ==
    /\ buffer = [i \in 0..(capacity - 1) |-> 0]
    /\ writeCursor = 0
    /\ currentWriter = 0
    /\ slowestReader = 0
    /\ closer = FALSE
    /\ wpc = "idle"
    /\ wop = "none"
    /\ wn = 0
    /\ nextWriter = 0
    /\ wload = <<1, 0>>
    /\ werr = "none"
    /\ cursor = [r \in Readers |-> 0]
    /\ rcloser = [r \in Readers |-> FALSE]
    /\ rpc = [r \in Readers |-> "start"]
    /\ current = [r \in Readers |-> 0]
    /\ upstream = [r \in Readers |-> 0]
    /\ ridx = [r \in Readers |-> 1]
    /\ seq = [r \in Readers |-> 0]
    /\ log = [r \in Readers |-> <<>>]
    /\ loadStart = [x \in {0} \cup Readers |-> 0]

\* No RingBuffer, SingleProducer or MultiProducer has been built.
NoRing ==
    /\ kind = "none"
    /\ size = 0
    /\ ring = <<>>
    /\ producer = 0
    /\ published = 0
    /\ consumer = 0
    /\ ppc = <<>>
    /\ ploc = <<>>
    /\ pret = <<>>
    /\ pcount = <<>>
    /\ cpc = "idle"
    /\ cloc = <<>>
    /\ cret = <<>>
    /\ pubs = <<>>
    /\ got = <<>>

\* Initial state: Builder.Build has returned a Disruptor; no goroutine has
\* started.
Init ==
    /\ capacity \in {c \in Capacities : ValidCapacity(c)}
    /\ groups \in Topologies
    /\ NewDisruptor
    /\ args = <<>>
    /\ result = Build(capacity, groups)
    /\ NoRing

-----------------------------------------------------------------------------
\* The reader goroutines (SingleReader.LoopRead, BatchReader.LoopRead).

\* UpstreamOf wiring every reader to the writer.
UpstreamIsWriter(r) == GroupOf(r) - GroupOf(r)

\* The group whose barrier reader r reads: 0 for the writer.
UpstreamOf(r) == GroupOf(r) - 1

\* FirstSeq off by one: the dispatch starts again at current.
FirstSeqRepeats(cur) == cur

\* The first sequence of a dispatch: seq := current + 1.
FirstSeq(cur) == cur + 1

\* ReaderBatchSlots with the first range starting at the slot of cur.
ReaderBatchSlotsFromCurrent(cur, up) ==
    LET i == Slot(cur)
        j == Slot(up)
    IN  BatchSlots(i, unwrap(capacity, i, j))

\* The slots a BatchReader hands to its callback for (cur, up].
ReaderBatchSlots(cur, up) ==
    LET i == Slot(cur + 1)
        j == Slot(up)
    IN  BatchSlots(i, unwrap(capacity, i, j))

\* current := r.cursor.Load()
ReaderStart(r) ==
    /\ rpc[r] = "start"
    /\ current' = [current EXCEPT ![r] = cursor[r]]
    /\ rpc' = [rpc EXCEPT ![r] = "load1"]
    /\ UNCHANGED <<cursor, rcloser, upstream, ridx, seq, log>>
    /\ UNCHANGED <<wvars, cvars>>

\* upstream := r.upstreamBarrier.Load(), one cursor per step, and the
\* comparison current < upstream that follows the last one.  "load1" is the
\* if of the loop body, "load2" the first else-if.
ReaderLoad(r) ==
    /\ rpc[r] \in {"load1", "load2"}
    /\ LET g == UpstreamOf(r)
           v == BarrierAt(g, ridx[r])
           acc == IF ridx[r] = 1 THEN v ELSE MinStep(upstream[r], v)
       IN  /\ upstream' = [upstream EXCEPT ![r] = acc]
           /\ IF ridx[r] < BarrierLen(g)
              THEN /\ ridx' = [ridx EXCEPT ![r] = ridx[r] + 1]
                   /\ UNCHANGED <<rpc, seq>>
              ELSE /\ ridx' = [ridx EXCEPT ![r] = 1]
                   /\ IF current[r] < acc
                      THEN /\ rpc' = [rpc EXCEPT ![r] = "dispatch"]
                           /\ seq' = [seq EXCEPT ![r] =
                                        IF IsBatch(r) THEN 0 ELSE FirstSeq(current[r])]
                      ELSE /\ rpc' = [rpc EXCEPT ![r] =
                                        IF rpc[r] = "load1" THEN "load2" ELSE "closed"]
                           /\ UNCHANGED seq
    /\ UNCHANGED <<cursor, rcloser, current, log>>
    /\ loadStart' = LoadStartAfter(r, UpstreamOf(r), ridx[r])
    /\ UNCHANGED <<wvars, capacity, groups, args, result, qvars>>

\* SingleReader: r.f(&r.buffer[seq&r.mask]); seq++
SingleDispatch(r) ==
    /\ rpc[r] = "dispatch"
    /\ ~IsBatch(r)
    /\ log' = [log EXCEPT ![r] = Append(log[r], <<seq[r], buffer[Slot(seq[r])]>>)]
    /\ IF seq[r] + 1 <= upstream[r]
       THEN /\ seq' = [seq EXCEPT ![r] = seq[r] + 1]
            /\ UNCHANGED rpc
       ELSE /\ seq' = [seq EXCEPT ![r] = 0]
            /\ rpc' = [rpc EXCEPT ![r] = "store"]
    /\ UNCHANGED <<cursor, rcloser, current, upstream, ridx>>
    /\ UNCHANGED <<wvars, cvars>>

\* BatchReader: one call r.f([2]*T{&r.buffer[i], &r.buffer[0]}, [2]int{len1, len2});
\* the callback visits the slots it is handed, in order.
BatchDispatch(r) ==
    /\ rpc[r] = "dispatch"
    /\ IsBatch(r)
    /\ LET slots == ReaderBatchSlots(current[r], upstream[r])
       IN  log' = [log EXCEPT ![r] = log[r] \o
                     [k \in 1..Len(slots) |-> <<current[r] + k, buffer[slots[k]]>>]]
    /\ rpc' = [rpc EXCEPT ![r] = "store"]
    /\ UNCHANGED <<cursor, rcloser, current, upstream, ridx, seq>>
    /\ UNCHANGED <<wvars, cvars>>

\* r.cursor.Store(upstream); current = upstream
ReaderStore(r) ==
    /\ rpc[r] = "store"
    /\ cursor' = [cursor EXCEPT ![r] = upstream[r]]
    /\ current' = [current EXCEPT ![r] = upstream[r]]
    /\ rpc' = [rpc EXCEPT ![r] = "load1"]
    /\ UNCHANGED <<rcloser, upstream, ridx, seq, log>>
    /\ UNCHANGED <<wvars, cvars>>

\* ReaderIsClosed answering from the first flag of the closed-barrier alone.
ReaderIsClosedFirstOnly(r) ==
    /\ rpc[r] = "closed"
    /\ rpc' = [rpc EXCEPT ![r] =
                 IF ClosedAt(UpstreamOf(r), 1) THEN "ret" ELSE "load1"]
    /\ ridx' = [ridx EXCEPT ![r] = 1]
    /\ UNCHANGED <<cursor, rcloser, current, upstream, seq, log>>
    /\ UNCHANGED <<wvars, cvars>>

\* r.closedBarrier.IsClosed(), one flag per step; when it answers false the
\* reader yields and starts the loop body again.
ReaderIsClosed(r) ==
    /\ rpc[r] = "closed"
    /\ LET g == UpstreamOf(r)
       IN  IF ~ClosedAt(g, ridx[r])
           THEN /\ rpc' = [rpc EXCEPT ![r] = "load1"]
                /\ ridx' = [ridx EXCEPT ![r] = 1]
           ELSE IF ridx[r] < BarrierLen(g)
                THEN /\ ridx' = [ridx EXCEPT ![r] = ridx[r] + 1]
                     /\ UNCHANGED rpc
                ELSE /\ rpc' = [rpc EXCEPT ![r] = "ret"]
                     /\ ridx' = [ridx EXCEPT ![r] = 1]
    /\ UNCHANGED <<cursor, rcloser, current, upstream, seq, log>>
    /\ UNCHANGED <<wvars, cvars>>

\* ReaderReturn without the deferred r.closer.Close().
ReaderReturnNoClose(r) ==
    /\ rpc[r] = "ret"
    /\ rpc' = [rpc EXCEPT ![r] = "done"]
    /\ UNCHANGED <<cursor, rcloser, current, upstream, ridx, seq, log>>
    /\ UNCHANGED <<wvars, cvars>>

\* return, running the deferred r.closer.Close()
ReaderReturn(r) ==
    /\ rpc[r] = "ret"
    /\ rcloser' = [rcloser EXCEPT ![r] = TRUE]
    /\ rpc' = [rpc EXCEPT ![r] = "done"]
    /\ UNCHANGED <<cursor, current, upstream, ridx, seq, log>>
    /\ UNCHANGED <<wvars, cvars>>

ReaderStep(r) ==
    \/ ReaderStart(r)
    \/ ReaderLoad(r)
    \/ SingleDispatch(r)
    \/ BatchDispatch(r)
    \/ ReaderStore(r)
    \/ ReaderIsClosed(r)
    \/ ReaderReturn(r)

-----------------------------------------------------------------------------
\* The writer goroutine (Disruptor.Write, WriteBatch, reserve, commit, Close).

\* The slots the callback of the call in progress is handed, in order.
WriterSlots ==
    IF wop = "Write"
    THEN <<Slot(nextWriter)>>
    ELSE LET i == Slot(currentWriter + 1)
             j == Slot(nextWriter)
         IN  BatchSlots(i, unwrap(capacity, i, j))

\* MustWait tested on the cursor already published instead of nextWriter.
MustWaitOnCurrent(next, slowest, cap) == currentWriter >= slowest + cap

\* reserve's loop condition: the writer has to wait.
MustWait(next, slowest, cap) == next >= slowest + cap

\* The barrier Build hands the writer as readBarrier: wireReaders returns the
\* barrier over the last group.
ReadBarrierGroup == NumGroups

\* EnterReserve with the call to reserve left out.
EnterWithoutReserve(op, n, next) ==
    /\ werr' = "none"
    /\ wop' = op
    /\ wn' = n
    /\ nextWriter' = next
    /\ wpc' = "callback"
    /\ UNCHANGED <<buffer, writeCursor, currentWriter, slowestReader, closer, wload>>

\* Entering reserve(next): the loop condition is tested on the cached value.
EnterReserve(op, n, next) ==
    /\ werr' = "none"
    /\ wop' = op
    /\ wn' = n
    /\ nextWriter' = next
    /\ wpc' = IF MustWait(next, slowestReader, capacity) THEN "wait" ELSE "callback"
    /\ UNCHANGED <<buffer, writeCursor, currentWriter, slowestReader, closer, wload>>

Panic(msg) ==
    /\ werr' = msg
    /\ UNCHANGED <<buffer, writeCursor, currentWriter, slowestReader, closer, wpc,
                   wop, wn, nextWriter, wload>>

\* Write without the test of d.closer.IsClosed().
WriteUnchecked ==
    /\ wpc = "idle"
    /\ currentWriter + 1 <= MaxWrites
    /\ EnterReserve("Write", 1, currentWriter + 1)
    /\ UNCHANGED <<rvars, cvars>>

\* Write(f) up to the first test of reserve's loop condition.
Write ==
    /\ wpc = "idle"
    /\ closer \/ currentWriter + 1 <= MaxWrites
    /\ IF closer
       THEN Panic("WriteAfterClose")
       ELSE EnterReserve("Write", 1, currentWriter + 1)
    /\ UNCHANGED <<rvars, cvars>>

\* WriteBatch(n, f) up to the first test of reserve's loop condition.
WriteBatch(n) ==
    /\ wpc = "idle"
    /\ n > capacity \/ closer
          \/ (currentWriter + n <= MaxWrites /\ currentWriter + n >= 0)
    /\ IF n > capacity
       THEN Panic("BatchTooLarge")
       ELSE IF closer
            THEN Panic("WriteAfterClose")
            ELSE EnterReserve("WriteBatch", n, currentWriter + n)
    /\ UNCHANGED <<rvars, cvars>>

\* ReserveWait caching the write cursor in place of the read barrier.
ReserveWaitCachesWriteCursor ==
    /\ wpc = "wait"
    /\ wload' = <<1, 0>>
    /\ slowestReader' = writeCursor
    /\ wpc' = IF MustWait(nextWriter, writeCursor, capacity)
              THEN "wait" ELSE "callback"
    /\ UNCHANGED <<buffer, writeCursor, currentWriter, closer, wop, wn, nextWriter,
                   werr>>
    /\ UNCHANGED <<rvars, cvars>>

\* One round of reserve's loop: runtime.Gosched(), then
\* d.slowestReader.Val = d.readBarrier.Load() (one cursor per step) and the
\* loop condition again.
ReserveWait ==
    /\ wpc = "wait"
    /\ LET g == ReadBarrierGroup
           v == BarrierAt(g, wload[1])
           acc == IF wload[1] = 1 THEN v ELSE MinStep(wload[2], v)
       IN  IF wload[1] < BarrierLen(g)
           THEN /\ wload' = <<wload[1] + 1, acc>>
                /\ UNCHANGED <<slowestReader, wpc>>
           ELSE /\ wload' = <<1, 0>>
                /\ slowestReader' = acc
                /\ wpc' = IF MustWait(nextWriter, acc, capacity)
                          THEN "wait" ELSE "callback"
    /\ UNCHANGED <<buffer, writeCursor, currentWriter, closer, wop, wn, nextWriter,
                   werr>>
    /\ loadStart' = LoadStartAfter(0, ReadBarrierGroup, wload[1])
    /\ UNCHANGED <<rvars, capacity, groups, args, result, qvars>>

\* The user callback f: it stores item number currentWriter + k into the
\* k-th slot it is handed.
WriterCallback ==
    /\ wpc = "callback"
    /\ LET slots == WriterSlots
       IN  buffer' = [s \in DOMAIN buffer |->
                        IF \E k \in 1..Len(slots) : slots[k] = s
                        THEN currentWriter + (CHOOSE k \in 1..Len(slots) : slots[k] = s)
                        ELSE buffer[s]]
    /\ wpc' = "commit"
    /\ UNCHANGED <<writeCursor, currentWriter, slowestReader, closer, wop, wn,
                   nextWriter, wload, werr>>
    /\ UNCHANGED <<rvars, cvars>>

\* Commit leaving out d.currentWriter.Val = nextWriter.
CommitCursorOnly ==
    /\ wpc = "commit"
    /\ writeCursor' = nextWriter
    /\ wpc' = "idle"
    /\ wop' = "none"
    /\ wn' = 0
    /\ nextWriter' = 0
    /\ UNCHANGED <<buffer, currentWriter, slowestReader, closer, wload, werr>>
    /\ UNCHANGED <<rvars, cvars>>

\* commit(nextWriter), and the return of Write / WriteBatch.
Commit ==
    /\ wpc = "commit"
    /\ writeCursor' = nextWriter
    /\ currentWriter' = nextWriter
    /\ wpc' = "idle"
    /\ wop' = "none"
    /\ wn' = 0
    /\ nextWriter' = 0
    /\ UNCHANGED <<buffer, slowestReader, closer, wload, werr>>
    /\ UNCHANGED <<rvars, cvars>>

\* Close storing the other state instead of closedBuffer.
CloseToggles ==
    /\ wpc = "idle"
    /\ closer' = ~closer
    /\ UNCHANGED <<buffer, writeCursor, currentWriter, slowestReader, wpc, wop, wn,
                   nextWriter, wload, werr>>
    /\ UNCHANGED <<rvars, cvars>>

\* Close(), called by the writer goroutine between its writes.
Close ==
    /\ wpc = "idle"
    /\ closer' = TRUE
    /\ UNCHANGED <<buffer, writeCursor, currentWriter, slowestReader, wpc, wop, wn,
                   nextWriter, wload, werr>>
    /\ UNCHANGED <<rvars, cvars>>

\* Close(), called by another goroutine: at any point of the writer's call.
CloseConcurrent ==
    /\ closer' = TRUE
    /\ UNCHANGED <<buffer, writeCursor, currentWriter, slowestReader, wpc, wop, wn,
                   nextWriter, wload, werr>>
    /\ UNCHANGED <<rvars, cvars>>

\* Disruptor.LoopRead: wg.Wait() returns once every reader goroutine has
\* returned from its LoopRead and called wg.Done().
LoopReadReturned == \A r \in Readers : rpc[r] = "done"

\* d, err := b.Build(), called on its own.
BuildCall ==
    /\ Len(args) = 0
    /\ result = <<>>
    /\ result' = Build(capacity, groups)
    /\ UNCHANGED <<capacity, groups, args, qvars, loadStart>>
    /\ UNCHANGED <<wvars, rvars>>

\* d, err := b.Build() on a Builder whose yields are args.
BuildWithYieldsCall ==
    /\ Len(args) = 2
    /\ result = <<>>
    /\ result' = BuildWithYields(capacity, groups, args[1], args[2])
    /\ UNCHANGED <<capacity, groups, args, qvars, loadStart>>
    /\ UNCHANGED <<wvars, rvars>>

\* len1, len2 := unwrap(capacity, i, j), called on its own.
UnwrapCall ==
    /\ Len(args) = 2
    /\ result = <<>>
    /\ result' = unwrap(capacity, args[1], args[2])
    /\ UNCHANGED <<capacity, groups, args, qvars, loadStart>>
    /\ UNCHANGED <<wvars, rvars>>

WriterProgress == ReserveWait \/ WriterCallback \/ Commit

-----------------------------------------------------------------------------
\* The ring buffers without pipelines: RingBuffer (TryPublish / TryConsume),
\* RingBuffer (Publish / Consume), SingleProducer and MultiProducer.  The four
\* types share the shape of their calls; where their code differs the model
\* branches on kind.

\* Items a producer goroutine hands over in one behaviour.
MaxProduce == 6

\* The producer goroutines sharing a MultiProducer, and the items each hands
\* over.
MultiProducers == {1, 2}
MaxMultiProduce == 2

RingKinds == {"RingBufferTry", "RingBuffer", "SingleProducer"}
RingSizes == {1, 2, 4}

\* The zero value of T, and a value no Produce call was given (a torn read).
Zero == <<0, 0>>
Torn == <<0, 0 - 1>>

Producers == DOMAIN ppc

\* seq & mask
QSlot(s) == BitAnd(s, size - 1)

\* TryPublishFull reporting full one item early.
TryPublishFullEarly(next, cons) == next >= cons + size

\* RingBuffer.TryPublish: nextSeq > currentConsumerSeq+rb.size
TryPublishFull(next, cons) == next > cons + size

\* RingBuffer.Publish: nextSeq > currentConsumerSeq+rb.size-1
RingBufferFull(next, cons) == next > cons + size - 1

\* SingleProducerFull reporting full one item early.
SingleProducerFullEarly(next, cons) == next >= cons + size

\* SingleProducer.Produce: nextProducer > currentConsumer+sp.size
SingleProducerFull(next, cons) == next > cons + size

\* MultiProducerFull reporting full one item late.
MultiProducerFullLate(next, cons) == next > cons + size + 1

\* MultiProducer.Produce: nextProducer > currentConsumer+mp.size
MultiProducerFull(next, cons) == next > cons + size

Full(next, cons) ==
    CASE kind = "RingBufferTry" -> TryPublishFull(next, cons)
      [] kind = "RingBuffer" -> RingBufferFull(next, cons)
      [] kind = "SingleProducer" -> SingleProducerFull(next, cons)
      [] OTHER -> MultiProducerFull(next, cons)

\* Empty answering false when the two cursors are equal.
EmptyStrict(cons, prod) == cons > prod

\* Consume / TryConsume: currentConsumer >= currentProducer (currentPublished
\* for the MultiProducer).
Empty(cons, prod) == cons >= prod

\* ProduceIndex computed from the sequence before the one claimed.
ProduceIndexCurrent(next) == QSlot(next - 1)

\* index := nextProducer & mask
ProduceIndex(next) == QSlot(next)

\* ConsumeIndex computed from currentConsumer.
ConsumeIndexStale(next) == QSlot(next - 1)

\* index := nextSeq & mask
ConsumeIndex(next) == QSlot(next)

\* MustWaitForPrevious waiting until its own sequence is the published one.
WaitsForOwnSequence(next, cur) == next # cur

\* MustWaitForPrevious never waiting for the sequences before its own.
NeverWaitsForPrevious(next, cur) == next < cur + 1

\* updatePublished: nextPublished != currentPublished+1
MustWaitForPrevious(next, cur) == next # cur + 1

\* The items a producer may hand over: MaxProduce for the single producer,
\* MaxMultiProduce for each producer of a MultiProducer.
ProduceLimit == IF kind = "MultiProducer" THEN MaxMultiProduce ELSE MaxProduce

\* The state a constructor leaves: NewRingBuffer, SingleProducerBuilder.Build,
\* MultiProducerBuilder.Build.
NewRing(k, n, producers) ==
    /\ kind = k
    /\ size = n
    /\ ring = [i \in 0..(n - 1) |-> Zero]
    /\ producer = 0
    /\ published = 0
    /\ consumer = 0
    /\ ppc = [p \in producers |-> "idle"]
    /\ ploc = [p \in producers |->
                 [currentProducer |-> 0, nextProducer |-> 0, currentConsumer |-> 0,
                  currentPublished |-> 0, data |-> Zero]]
    /\ pret = [p \in producers |-> "none"]
    /\ pcount = [p \in producers |-> 0]
    /\ cpc = "idle"
    /\ cloc = [currentConsumer |-> 0, currentProducer |-> 0, nextSeq |-> 0,
               data |-> Zero]
    /\ cret = <<>>
    /\ pubs = <<>>
    /\ got = <<>>

\* No Disruptor is in use.
NoDisruptor ==
    /\ capacity = 1
    /\ groups = <<1>>
    /\ NewDisruptor
    /\ args = <<>>
    /\ result = <<>>

\* What an action of a ring buffer leaves alone.
DisruptorUnchanged ==
    UNCHANGED <<wvars, rvars, capacity, groups, args, result, loadStart>>

\* A producer goroutine calls Publish / Produce / TryPublish with the next
\* item of its stream.
ProduceCall(p) ==
    /\ ppc[p] = "idle"
    /\ pcount[p] < ProduceLimit
    /\ ploc' = [ploc EXCEPT ![p].data = <<p, pcount[p] + 1>>]
    /\ pret' = [pret EXCEPT ![p] = "none"]
    /\ ppc' = [ppc EXCEPT ![p] = "load"]
    /\ UNCHANGED <<kind, size, ring, producer, published, consumer, pcount, cpc,
                   cloc, cret, pubs, got>>
    /\ DisruptorUnchanged

\* currentProducer := sp.producer.Load(); nextProducer := currentProducer + 1
ProducerLoad(p) ==
    /\ ppc[p] = "load"
    /\ ploc' = [ploc EXCEPT ![p].currentProducer = producer,
                            ![p].nextProducer = producer + 1]
    /\ ppc' = [ppc EXCEPT ![p] = "check"]
    /\ UNCHANGED <<kind, size, ring, producer, published, consumer, pret, pcount,
                   cpc, cloc, cret, pubs, got>>
    /\ DisruptorUnchanged

\* currentConsumer := sp.consumer.Load() and the capacity test: when full,
\* TryPublish returns false and the blocking calls go to yield.
ProducerCheck(p) ==
    /\ ppc[p] = "check"
    /\ ploc' = [ploc EXCEPT ![p].currentConsumer = consumer]
    /\ IF Full(ploc[p].nextProducer, consumer)
       THEN IF kind = "RingBufferTry"
            THEN /\ ppc' = [ppc EXCEPT ![p] = "idle"]
                 /\ pret' = [pret EXCEPT ![p] = "false"]
            ELSE /\ ppc' = [ppc EXCEPT ![p] = "yield"]
                 /\ UNCHANGED pret
       ELSE /\ ppc' = [ppc EXCEPT ![p] =
                         IF kind = "MultiProducer" THEN "claim" ELSE "write"]
            /\ UNCHANGED pret
    /\ UNCHANGED <<kind, size, ring, producer, published, consumer, pcount, cpc,
                   cloc, cret, pubs, got>>
    /\ DisruptorUnchanged

\* sp.yield(); continue (also after a failed CompareAndSwap of the producer
\* cursor)
ProducerYield(p) ==
    /\ ppc[p] = "yield"
    /\ ppc' = [ppc EXCEPT ![p] = "load"]
    /\ UNCHANGED <<kind, size, ring, producer, published, consumer, ploc, pret,
                   pcount, cpc, cloc, cret, pubs, got>>
    /\ DisruptorUnchanged

\* MultiProducer: mp.producer.CompareAndSwap(currentProducer, nextProducer)
ProducerClaim(p) ==
    /\ ppc[p] = "claim"
    /\ IF producer = ploc[p].currentProducer
       THEN /\ producer' = ploc[p].nextProducer
            /\ pubs' = Append(pubs, ploc[p].data)
            /\ ppc' = [ppc EXCEPT ![p] = "write"]
       ELSE /\ ppc' = [ppc EXCEPT ![p] = "yield"]
            /\ UNCHANGED <<producer, pubs>>
    /\ UNCHANGED <<kind, size, ring, published, consumer, ploc, pret, pcount, cpc,
                   cloc, cret, got>>
    /\ DisruptorUnchanged

\* The goroutines, other than p, that are about to write the slot.
RacingWriters(p, slot) ==
    {q \in Producers \ {p} :
        ppc[q] = "write" /\ ProduceIndex(ploc[q].nextProducer) = slot}

\* sp.buffer[index] = data: a plain store.  A store that races with another
\* plain store to the slot may leave a torn value.
ProducerWrite(p) ==
    /\ ppc[p] = "write"
    /\ LET slot == ProduceIndex(ploc[p].nextProducer)
       IN  \E v \in {ploc[p].data} \cup
                    (IF RacingWriters(p, slot) # {} THEN {Torn} ELSE {}) :
               ring' = [ring EXCEPT ![slot] = v]
    /\ ppc' = [ppc EXCEPT ![p] =
                 IF kind = "MultiProducer" THEN "pubload" ELSE "store"]
    /\ UNCHANGED <<kind, size, producer, published, consumer, ploc, pret, pcount,
                   cpc, cloc, cret, pubs, got>>
    /\ DisruptorUnchanged

\* sp.producer.Store(nextProducer); return (TryPublish: return true)
ProducerStore(p) ==
    /\ ppc[p] = "store"
    /\ producer' = ploc[p].nextProducer
    /\ pubs' = Append(pubs, ploc[p].data)
    /\ pcount' = [pcount EXCEPT ![p] = pcount[p] + 1]
    /\ pret' = [pret EXCEPT ![p] = IF kind = "RingBufferTry" THEN "true" ELSE "none"]
    /\ ppc' = [ppc EXCEPT ![p] = "idle"]
    /\ UNCHANGED <<kind, size, ring, published, consumer, ploc, cpc, cloc, cret,
                   got>>
    /\ DisruptorUnchanged

\* updatePublished: currentPublished := mp.published.Load() and the test
\* nextPublished != currentPublished+1
PublishedLoad(p) ==
    /\ ppc[p] = "pubload"
    /\ ploc' = [ploc EXCEPT ![p].currentPublished = published]
    /\ ppc' = [ppc EXCEPT ![p] =
                 IF MustWaitForPrevious(ploc[p].nextProducer, published)
                 THEN "pubyield" ELSE "pubcas"]
    /\ UNCHANGED <<kind, size, ring, producer, published, consumer, pret, pcount,
                   cpc, cloc, cret, pubs, got>>
    /\ DisruptorUnchanged

\* updatePublished: mp.yield(); continue
PublishedYield(p) ==
    /\ ppc[p] = "pubyield"
    /\ ppc' = [ppc EXCEPT ![p] = "pubload"]
    /\ UNCHANGED <<kind, size, ring, producer, published, consumer, ploc, pret,
                   pcount, cpc, cloc, cret, pubs, got>>
    /\ DisruptorUnchanged

\* updatePublished: mp.published.CompareAndSwap(currentPublished, nextPublished),
\* and the return of Produce when it succeeds
PublishedCAS(p) ==
    /\ ppc[p] = "pubcas"
    /\ IF published = ploc[p].currentPublished
       THEN /\ published' = ploc[p].nextProducer
            /\ pcount' = [pcount EXCEPT ![p] = pcount[p] + 1]
            /\ ppc' = [ppc EXCEPT ![p] = "idle"]
       ELSE /\ ppc' = [ppc EXCEPT ![p] = "pubload"]
            /\ UNCHANGED <<published, pcount>>
    /\ UNCHANGED <<kind, size, ring, producer, consumer, ploc, pret, cpc, cloc,
                   cret, pubs, got>>
    /\ DisruptorUnchanged

\* The steps of a call in progress on a RingBuffer or a SingleProducer.
ProducerStep(p) ==
    \/ ProducerLoad(p)
    \/ ProducerCheck(p)
    \/ ProducerYield(p)
    \/ ProducerWrite(p)
    \/ ProducerStore(p)

\* The steps of a Produce in progress on a MultiProducer.
MultiProducerStep(p) ==
    \/ ProducerLoad(p)
    \/ ProducerCheck(p)
    \/ ProducerYield(p)
    \/ ProducerClaim(p)
    \/ ProducerWrite(p)
    \/ PublishedLoad(p)
    \/ PublishedYield(p)
    \/ PublishedCAS(p)

\* The consumer goroutine calls Consume / TryConsume.
ConsumeCall ==
    /\ kind # "none"
    /\ cpc = "idle"
    /\ cret' = <<>>
    /\ cpc' = "load"
    /\ UNCHANGED <<kind, size, ring, producer, published, consumer, ppc, ploc,
                   pret, pcount, cloc, pubs, got>>
    /\ DisruptorUnchanged

\* currentConsumer := sp.consumer.Load()
ConsumerLoad ==
    /\ cpc = "load"
    /\ cloc' = [cloc EXCEPT !.currentConsumer = consumer]
    /\ cpc' = "check"
    /\ UNCHANGED <<kind, size, ring, producer, published, consumer, ppc, ploc,
                   pret, pcount, cret, pubs, got>>
    /\ DisruptorUnchanged

\* currentProducer := sp.producer.Load() (mp.published.Load() for the
\* MultiProducer) and the test for an empty buffer: when empty, TryConsume
\* returns (zero, false) and the blocking calls go to yield.
ConsumerCheck ==
    /\ cpc = "check"
    /\ LET cur == IF kind = "MultiProducer" THEN published ELSE producer
       IN  /\ IF Empty(cloc.currentConsumer, cur)
              THEN /\ cloc' = [cloc EXCEPT !.currentProducer = cur]
                   /\ IF kind = "RingBufferTry"
                      THEN /\ cpc' = "idle"
                           /\ cret' = <<Zero, "false">>
                      ELSE /\ cpc' = "yield"
                           /\ UNCHANGED cret
              ELSE /\ cloc' = [cloc EXCEPT !.currentProducer = cur,
                                           !.nextSeq = cloc.currentConsumer + 1]
                   /\ cpc' = "read"
                   /\ UNCHANGED cret
    /\ UNCHANGED <<kind, size, ring, producer, published, consumer, ppc, ploc,
                   pret, pcount, pubs, got>>
    /\ DisruptorUnchanged

\* sp.yield(); continue
ConsumerYield ==
    /\ cpc = "yield"
    /\ cpc' = "load"
    /\ UNCHANGED <<kind, size, ring, producer, published, consumer, ppc, ploc,
                   pret, pcount, cloc, cret, pubs, got>>
    /\ DisruptorUnchanged

\* The values a plain load of the slot may give: the stored item, or, when a
\* producer is at its plain store to the same slot, also that producer's item
\* or a torn value.
ReadValues(slot) ==
    {ring[slot]} \cup
    UNION {{ploc[p].data, Torn} : p \in RacingWriters(0, slot)}

\* data := sp.buffer[index]
ConsumerRead ==
    /\ cpc = "read"
    /\ \E v \in ReadValues(ConsumeIndex(cloc.nextSeq)) :
           cloc' = [cloc EXCEPT !.data = v]
    /\ cpc' = "store"
    /\ UNCHANGED <<kind, size, ring, producer, published, consumer, ppc, ploc,
                   pret, pcount, cret, pubs, got>>
    /\ DisruptorUnchanged

\* sp.consumer.Store(nextConsumer); return data (TryConsume: data, true)
ConsumerStore ==
    /\ cpc = "store"
    /\ consumer' = cloc.nextSeq
    /\ got' = Append(got, cloc.data)
    /\ cret' = <<cloc.data, "true">>
    /\ cpc' = "idle"
    /\ UNCHANGED <<kind, size, ring, producer, published, ppc, ploc, pret, pcount,
                   cloc, pubs>>
    /\ DisruptorUnchanged

\* The steps of the consumer's call in progress.
ConsumerStep == ConsumerLoad \/ ConsumerCheck \/ ConsumerYield \/ ConsumerRead
                    \/ ConsumerStore

-----------------------------------------------------------------------------
\* MinimumBarrier.Load called on a group whose cursors do not change.

\* The largest cursor value handed to MinimumBarrier.Load, and the largest
\* group.
MaxCursorValue == 5
MaxGroupSize == 3

\* The cursor values handed to MinimumBarrier.Load: the small ones and the
\* largest value of the word.
CursorValues == 0..MaxCursorValue \cup {Pow2(WordBits - 1) - 1}

\* The loop of MinimumBarrier.Load from index i on, minimum being the running
\* minimum.
RECURSIVE MinimumFrom(_, _, _)
MinimumFrom(cs, i, minimum) ==
    IF i > Len(cs)
    THEN minimum
    ELSE MinimumFrom(cs, i + 1, MinStep(minimum, cs[i]))

\* MinimumBarrierLoad leaving out the last cursor of the group.
MinimumBarrierLoadSkipsLast(cs) ==
    IF Len(cs) = 1 THEN cs[1] ELSE MinimumFrom(SubSeq(cs, 1, Len(cs) - 1), 2, cs[1])

\* MinimumBarrier.Load: minimum := m[0].Load(), then the loop over the rest.
MinimumBarrierLoad(cs) == MinimumFrom(cs, 2, cs[1])

\* A call of MinimumBarrier.Load on the cursors in args.
MinimumLoadCall ==
    /\ Len(args) >= 1
    /\ result = <<>>
    /\ result' = <<MinimumBarrierLoad(args)>>
    /\ UNCHANGED <<capacity, groups, args, qvars, loadStart>>
    /\ UNCHANGED <<wvars, rvars>>

-----------------------------------------------------------------------------
\* Specifications.

\* Calls within the documented ranges.
Next ==
    \/ Write
    \/ \E n \in 1..capacity : WriteBatch(n)
    \/ WriterProgress
    \/ Close
    \/ \E r \in Readers : ReaderStep(r)

Spec == Init /\ [][Next]_vars

\* Every reader id of every topology.
AllReaders == UNION {1..SumTo(t, Len(t)) : t \in Topologies}

\* The goroutines are scheduled fairly: a goroutine that can take a step
\* eventually takes one (Write, WriteBatch and Close are the caller's choice).
\* The two smallest capacities and one topology.
LiveInit == Init /\ capacity \in {1, 2} /\ groups = <<2, 1>>

LiveSpec ==
    /\ LiveInit
    /\ [][Next]_vars
    /\ WF_vars(WriterProgress)
    /\ \A r \in AllReaders : WF_vars(r \in Readers /\ ReaderStep(r))

\* Calls of WriteBatch with any n, the documented range or not, on the two
\* smallest capacities and a single reader.
NextArgs ==
    \/ Write /\ currentWriter < MaxArgWrites
    \/ \E n \in MinBatchArg..(capacity + 1) :
          WriteBatch(n) /\ currentWriter + n <= MaxArgWrites
    \/ WriterProgress
    \/ Close
    \/ \E r \in Readers : ReaderStep(r)

ArgsInit == Init /\ capacity \in {1, 2} /\ groups = <<1>>

SpecArgs == ArgsInit /\ [][NextArgs]_vars

\* Close called by a goroutine other than the writer's, at any moment; calls
\* within the documented ranges, the two smallest capacities, a single reader.
NextClose ==
    \/ Write /\ currentWriter < MaxArgWrites
    \/ \E n \in 1..capacity :
          WriteBatch(n) /\ currentWriter + n <= MaxArgWrites
    \/ WriterProgress
    \/ CloseConcurrent
    \/ \E r \in Readers : ReaderStep(r)

SpecClose == ArgsInit /\ [][NextClose]_vars

\* Build called on a builder of any capacity and any reader groups.
BuildCapacities == (0 - 2)..9
BuildGroups == {<<>>, <<0>>, <<1>>, <<1, 0>>, <<0, 2>>, <<2, 1>>, <<1, 2, 1>>}

BuildInit ==
    /\ capacity \in BuildCapacities
    /\ groups \in BuildGroups
    /\ NewDisruptor
    /\ args = <<>>
    /\ result = <<>>
    /\ NoRing

NextBuild == BuildCall

SpecBuild == BuildInit /\ [][NextBuild]_vars

\* Build called once on a Builder of every capacity, list of groups and
\* choice of yield overrides.
BuildYieldsInit ==
    /\ capacity \in BuildCapacities
    /\ groups \in BuildGroups
    /\ NewDisruptor
    /\ args \in Yields \X Yields
    /\ result = <<>>
    /\ NoRing

NextBuildYields == BuildWithYieldsCall

SpecBuildYields == BuildYieldsInit /\ [][NextBuildYields]_vars

\* unwrap called on every pair of indices of a buffer.
UnwrapCapacities == {1, 2, 4, 8}

UnwrapInit ==
    /\ capacity \in UnwrapCapacities
    /\ groups = <<1>>
    /\ NewDisruptor
    /\ args \in (0..(capacity - 1)) \X (0..(capacity - 1))
    /\ result = <<>>
    /\ NoRing

NextUnwrap == UnwrapCall

SpecUnwrap == UnwrapInit /\ [][NextUnwrap]_vars

\* One producer goroutine and one consumer goroutine on a RingBuffer (either
\* version) or a SingleProducer of each size; a goroutine inside a call is
\* scheduled fairly, and starting a call is the caller's choice.
RingInit ==
    /\ NoDisruptor
    /\ \E k \in RingKinds : \E n \in {c \in RingSizes : ValidCapacity(c)} :
           NewRing(k, n, {1})

NextRing ==
    \/ \E p \in Producers : ProduceCall(p)
    \/ \E p \in Producers : ProducerStep(p)
    \/ ConsumeCall
    \/ ConsumerStep

RingSpec ==
    /\ RingInit
    /\ [][NextRing]_vars
    /\ WF_vars(ProducerStep(1))
    /\ WF_vars(ConsumerStep)

\* The producer goroutines and one consumer goroutine on a MultiProducer of
\* each size.
MultiInit ==
    /\ NoDisruptor
    /\ \E n \in {c \in RingSizes : ValidCapacity(c)} :
           NewRing("MultiProducer", n, MultiProducers)

NextMulti ==
    \/ \E p \in Producers : ProduceCall(p)
    \/ \E p \in Producers : MultiProducerStep(p)
    \/ ConsumeCall
    \/ ConsumerStep

SpecMulti == MultiInit /\ [][NextMulti]_vars

\* The two smallest sizes with every goroutine scheduled fairly: a producer
\* inside Produce and the consumer inside Consume keep taking steps, and the
\* consumer keeps calling Consume.
LiveMultiInit == MultiInit /\ size \in {1, 2}

LiveMulti ==
    /\ LiveMultiInit
    /\ [][NextMulti]_vars
    /\ \A p \in MultiProducers : WF_vars(MultiProducerStep(p))
    /\ WF_vars(ConsumerStep)
    /\ WF_vars(ConsumeCall)

\* MinimumBarrier.Load on every non-empty group of up to MaxGroupSize cursors
\* with values in CursorValues.
MinimumInit ==
    /\ capacity = 1
    /\ groups = <<1>>
    /\ NewDisruptor
    /\ \E n \in 1..MaxGroupSize :
           args \in [1..n -> CursorValues]
    /\ result = <<>>
    /\ NoRing

NextMinimum == MinimumLoadCall

SpecMinimum == MinimumInit /\ [][NextMinimum]_vars

-----------------------------------------------------------------------------
\* Properties.

\* The number of items reader r's callback has been invoked for.
Seen(r) == Len(log[r])

\* C1: drain on close.  A reader that is returning from LoopRead, or has set
\* its close flag, has had its callback invoked for every sequence the
\* writer published before Close: its cursor equals the final write cursor.
DrainOnClose ==
    \A r \in Readers :
        (rpc[r] \in {"ret", "done"} \/ rcloser[r])
            => (cursor[r] = writeCursor /\ Seen(r) = writeCursor)


\* The sequences reader r's callback is executing on, or is about to.
InProgress(r) ==
    IF rpc[r] # "dispatch" THEN {}
    ELSE IF IsBatch(r) THEN (current[r] + 1)..upstream[r]
    ELSE seq[r]..upstream[r]

\* The slots reader r's callback is executing on.
ReaderExecSlots(r) ==
    IF rpc[r] # "dispatch" THEN {}
    ELSE IF IsBatch(r)
         THEN LET slots == ReaderBatchSlots(current[r], upstream[r])
              IN  {slots[k] : k \in 1..Len(slots)}
         ELSE {seq[r] % capacity}

\* The sequence up to which reader r's callback has been invoked, as its
\* position in LoopRead tells it.
DispatchedUpTo(r) ==
    IF rpc[r] = "dispatch" THEN (IF IsBatch(r) THEN current[r] ELSE seq[r] - 1)
    ELSE IF rpc[r] = "store" THEN upstream[r]
    ELSE cursor[r]

\* C2: exact in-order delivery.  The sequences a reader's callback has been
\* invoked for are exactly 1, 2, ..., up to its cursor or the point its
\* dispatch in progress has reached: ascending, none skipped, none repeated.
ExactInOrderDelivery ==
    \A r \in Readers :
        /\ Seen(r) = DispatchedUpTo(r)
        /\ \A k \in 1..Seen(r) : log[r][k][1] = k

ExactInOrderWitness ==
    /\ capacity = 4
    /\ \E r \in Readers : IsBatch(r)
    /\ \A r \in Readers : Seen(r) = MaxWrites /\ rpc[r] = "load1"

\* C3: slot content integrity.  The item a reader's callback finds in the
\* slot of sequence s is the item the writer stored for s; while a callback
\* is executing on s the writer has committed s and has not reserved
\* s + capacity.
SlotContentIntegrity ==
    \A r \in Readers :
        /\ \A k \in 1..Seen(r) : log[r][k][2] = log[r][k][1]
        /\ \A s \in InProgress(r) :
              /\ s <= writeCursor
              /\ buffer[s % capacity] = s
              /\ wpc \in {"callback", "commit"} => nextWriter < s + capacity

SlotContentWitness ==
    \E r \in Readers :
        /\ rpc[r] = "dispatch"
        /\ wpc = "callback"
        /\ nextWriter > capacity
        /\ \E s \in InProgress(r) : nextWriter = s + capacity - 2

\* C4: slot exclusivity.  While the writer's callback is executing on a slot,
\* every reader has already processed the item stored there and no reader's
\* callback is executing on that slot.
SlotExclusivity ==
    wpc = "callback" =>
        \A k \in 1..Len(WriterSlots) : \A r \in Readers :
            /\ Seen(r) >= buffer[WriterSlots[k]]
            /\ WriterSlots[k] \notin ReaderExecSlots(r)

SlotExclusivityWitness ==
    /\ wpc = "callback"
    /\ wop = "WriteBatch"
    /\ wn >= 2
    /\ nextWriter > capacity
    /\ \E r \in Readers : rpc[r] = "dispatch" /\ IsBatch(r)

\* C5: downstream after upstream.  A reader of group g has its callback
\* invoked for s only after every reader of group g-1 has had its callback
\* return for s; a reader's cursor never runs ahead of its callbacks.
DownstreamAfterUpstream ==
    \A r \in Readers :
        /\ cursor[r] <= Seen(r)
        /\ GroupOf(r) > 1 =>
              \A k \in 1..groups[GroupOf(r) - 1] :
                  LET u == Members(GroupOf(r) - 1)[k]
                  IN  /\ Seen(r) <= Seen(u)
                      /\ \A s \in InProgress(r) : s <= Seen(u)

DownstreamWitness ==
    \E r \in Readers :
        /\ GroupOf(r) > 1
        /\ rpc[r] = "dispatch"
        /\ upstream[r] >= 2
        /\ \E u, v \in Readers :
              /\ GroupOf(u) = GroupOf(r) - 1
              /\ GroupOf(v) = GroupOf(r) - 1
              /\ Seen(u) = upstream[r]
              /\ Seen(v) > Seen(u)

\* The minimum of the cursors of group g.
GroupMin(g) ==
    CHOOSE m \in {cursor[Members(g)[k]] : k \in 1..groups[g]} :
        \A k \in 1..groups[g] : m <= cursor[Members(g)[k]]

\* C6: bounded lag.  The write cursor is never more than capacity ahead of
\* the slowest reader of the last group, nor of any reader.
BoundedLag ==
    /\ writeCursor - GroupMin(NumGroups) <= capacity
    /\ \A r \in Readers : writeCursor - cursor[r] <= capacity

BoundedLagWitness ==
    /\ capacity = 4
    /\ wpc = "wait"
    /\ writeCursor - GroupMin(NumGroups) = capacity - 1
    /\ GroupMin(NumGroups) >= 2


\* C7: full-buffer condition of Write.  Write invokes the writer yield only
\* while next > slowest_downstream + capacity, so the first `capacity` calls
\* on a fresh disruptor complete without waiting.
WriteWaitsOnlyWhenOverfull ==
    (wop = "Write" /\ wpc = "wait") => nextWriter > slowestReader + capacity

\* C8: Write liveness.  For every valid capacity, a Write in progress on an
\* open disruptor eventually commits when the goroutines are scheduled
\* fairly.
WriteEventuallyCommits == (wop = "Write") ~> (wop = "none")

\* C9: WriteBatch liveness.  For every n in 1..capacity, n = capacity
\* included, a WriteBatch(n, f) in progress eventually invokes f and commits
\* (stated for the capacities above 1; capacity 1 is the case of C8).
WriteBatchEventuallyCommits ==
    (wop = "WriteBatch" /\ capacity > 1 /\ wn \in 1..capacity) ~> (wop = "none")

\* C10: WriteBatch range check.  No call WriteBatch(n, f) with n outside
\* 1..capacity gets past the check: none reserves, invokes f or commits.
BatchRangeChecked == wop = "WriteBatch" => wn \in 1..capacity

\* What a call that panics leaves alone: the buffer, the write cursor, the
\* writer's cached cursors and its position (no callback, no commit).
WriterUntouched ==
    UNCHANGED <<buffer, writeCursor, currentWriter, slowestReader, wpc, wop, wn,
                nextWriter, wload>>

\* C11 as stated: write after close.  Once Close has returned, every call to
\* Write or WriteBatch, whatever its n, panics with WriteAfterClose, invokes
\* no callback and leaves the write cursor, the cached cursors and the buffer
\* unchanged.
WriteAfterCloseFails ==
    [][(closer /\ (Write \/ \E n \in MinBatchArg..(capacity + 1) : WriteBatch(n)))
          => (werr' = "WriteAfterClose" /\ WriterUntouched)]_vars

\* C11 as amended: once Close has returned, every call to Write or WriteBatch
\* panics, invokes no callback and leaves the write cursor, the cached
\* cursors and the buffer unchanged; the panic is WriteAfterClose, except for
\* WriteBatch with n > capacity, whose panic is BatchTooLarge.
WriteAfterCloseOrTooLarge ==
    [][closer =>
          /\ Write => (werr' = "WriteAfterClose" /\ WriterUntouched)
          /\ \A n \in MinBatchArg..(capacity + 1) :
                WriteBatch(n) =>
                    /\ werr' = IF n > capacity THEN "BatchTooLarge"
                               ELSE "WriteAfterClose"
                    /\ WriterUntouched]_vars

WriteAfterCloseWitness ==
    /\ closer
    /\ werr = "WriteAfterClose"
    /\ writeCursor > 0
    /\ wpc = "idle"

\* C12: a closed writer never publishes.  In every interleaving of Close with
\* Write and WriteBatch, once the writer's close flag is set no later step
\* advances the write cursor.
ClosedWriterNeverPublishes == [][closer => writeCursor' = writeCursor]_vars

\* C13: Close is idempotent and monotonic.  No step takes the writer's close
\* flag or a reader's close flag from closed back to open, and a call of
\* Disruptor.Close on a closed disruptor changes nothing.
CloseMonotonicIdempotent ==
    [][/\ closer => closer'
       /\ \A r \in Readers : rcloser[r] => rcloser'[r]
       /\ (closer /\ Close) => UNCHANGED vars]_vars

CloseMonotonicWitness ==
    /\ closer
    /\ NumGroups > 1
    /\ writeCursor > 0
    /\ \E r \in Readers : rcloser[r]
    /\ \E r \in Readers : ~rcloser[r]

\* C14: shutdown terminates.  After the writer has called Close with no Write
\* in progress, under fair scheduling every reader's LoopRead returns, every
\* reader's close flag becomes set and Disruptor.LoopRead returns.
ShutdownTerminates ==
    closer ~> (LoopReadReturned /\ \A r \in Readers : rcloser[r])

ShutdownWitness ==
    /\ closer
    /\ writeCursor > 0
    /\ LoopReadReturned
    /\ \A r \in Readers : rcloser[r]

\* C15: LoopRead blocks until closed.  While the writer's close flag is unset
\* no reader's LoopRead is returning or has returned, no reader's close flag
\* is set and Disruptor.LoopRead has not returned, however many items have
\* been consumed.
LoopReadBlocksUntilClosed ==
    /\ \A r \in Readers : (rpc[r] \in {"ret", "done"} \/ rcloser[r]) => closer
    /\ LoopReadReturned => closer

LoopReadBlocksWitness ==
    /\ ~closer
    /\ \A r \in Readers : Seen(r) = MaxWrites
    /\ \E r \in Readers : rpc[r] = "closed" /\ GroupOf(r) > 1

\* The powers of two, by enumeration.
PowerOfTwo(c) == \E k \in 0..(WordBits - 2) : c = Pow2(k)

\* C16: construction validation.  Build returns ErrCapacity when capacity <= 0
\* or capacity is not a power of two; else ErrMissingReaderGroup when no group
\* was added; else ErrEmptyReaderGroup when a group has no readers; otherwise
\* a non-nil Disruptor and a nil error.  With an error the Disruptor is nil.
BuildValidates ==
    Len(result) = 2 =>
        /\ (capacity <= 0 \/ ~PowerOfTwo(capacity)) => result[2] = "ErrCapacity"
        /\ (PowerOfTwo(capacity) /\ Len(groups) = 0)
              => result[2] = "ErrMissingReaderGroup"
        /\ (PowerOfTwo(capacity) /\ Len(groups) > 0
                /\ \E g \in 1..Len(groups) : groups[g] = 0)
              => result[2] = "ErrEmptyReaderGroup"
        /\ (PowerOfTwo(capacity) /\ Len(groups) > 0
                /\ \A g \in 1..Len(groups) : groups[g] > 0)
              => result = <<"Disruptor", "nil">>
        /\ result[2] # "nil" => result[1] = "nil"

BuildValidatesWitness ==
    /\ result = <<"nil", "ErrEmptyReaderGroup">>
    /\ capacity = 8
    /\ Len(groups) = 2

\* C17: monotonic cursors.  No step of any behaviour decreases the write
\* cursor or a reader's cursor.
MonotonicCursors ==
    [][/\ writeCursor' >= writeCursor
       /\ \A r \in Readers : cursor'[r] >= cursor[r]]_vars

\* C18: a reader never passes its upstream.  The cursor of a reader of the
\* first group is at most the write cursor, and the cursor of a reader of a
\* later group is at most the minimum of the cursors of the group before.
ReaderNeverPassesUpstream ==
    \A r \in Readers :
        IF GroupOf(r) = 1
        THEN cursor[r] <= writeCursor
        ELSE cursor[r] <= GroupMin(GroupOf(r) - 1)

\* C19: batch equivalence.  Item m of the stream reaches the write cursor
\* when it is handed over in a WriteBatch of any valid size, as it does when
\* the items are handed over one by one with Write (stated for the
\* capacities above 1, where every Write commits).
BatchEquivalence ==
    \A m \in 1..MaxWrites :
        (wop = "WriteBatch" /\ capacity > 1 /\ wn \in 1..capacity
            /\ m \in (currentWriter + 1)..nextWriter)
          ~> (writeCursor >= m)

\* C20: wrap split.  For every power-of-two capacity and all i, j in
\* 0..capacity-1, unwrap returns <<j-i+1, 0>> when i <= j and
\* <<capacity-i, j+1>> when j < i, and the two lengths add up to
\* ((j - i) mod capacity) + 1.
UnwrapSplitsCorrectly ==
    (Len(args) = 2 /\ Len(result) = 2) =>
        LET i == args[1]
            j == args[2]
        IN  /\ result = IF i <= j THEN <<j - i + 1, 0>>
                        ELSE <<capacity - i, j + 1>>
            /\ result[1] + result[2] = ((j - i) % capacity) + 1

UnwrapSplitsWitness ==
    /\ Len(args) = 2
    /\ Len(result) = 2
    /\ capacity = 8
    /\ args[2] < args[1]
    /\ result[2] > 0


-----------------------------------------------------------------------------
\* Properties of the ring buffers.

IsPrefix(a, b) == Len(a) <= Len(b) /\ \A i \in 1..Len(a) : a[i] = b[i]

\* C21: TryPublish returns false, leaving producerSeq, consumerSeq and the
\* buffer as they were, exactly when producerSeq - consumerSeq equals size at
\* its test; otherwise it stores the item at (producerSeq + 1) & mask,
\* increments producerSeq by one and returns true.  The buffer never holds more
\* than size unconsumed items.
TryPublishSaturation ==
    [][kind = "RingBufferTry" =>
          /\ ProducerCheck(1) =>
                /\ (pret'[1] = "false") <=> (producer - consumer = size)
                /\ pret'[1] = "false" =>
                      /\ UNCHANGED <<producer, consumer, ring>>
                      /\ ppc'[1] = "idle"
                /\ pret'[1] # "false" => ppc'[1] = "write"
          /\ ProducerWrite(1) =>
                /\ ring' = [ring EXCEPT ![BitAnd(producer + 1, size - 1)] =
                                            ploc[1].data]
                /\ UNCHANGED <<producer, consumer>>
          /\ ProducerStore(1) =>
                /\ producer' = producer + 1
                /\ ring[BitAnd(producer + 1, size - 1)] = ploc[1].data
                /\ pret'[1] = "true"
                /\ UNCHANGED <<consumer, ring>>
          /\ producer' - consumer' \in 0..size]_vars

\* A RingBuffer of size 2 after two TryPublish succeeded and a third returned
\* false with nothing consumed.
TryPublishSaturationWitness ==
    /\ kind = "RingBufferTry"
    /\ size = 2
    /\ producer = 2
    /\ consumer = 0
    /\ pcount[1] = 2
    /\ ppc[1] = "idle"
    /\ pret[1] = "false"

\* C22: TryConsume returns (zero, false), changing nothing, exactly when
\* consumerSeq >= producerSeq at its test; otherwise it returns the item with
\* sequence consumerSeq + 1 and increments consumerSeq by one.  The items of
\* the successful calls are the published items in publication order.
TryConsumeInOrder ==
    [][kind = "RingBufferTry" =>
          /\ ConsumerCheck =>
                /\ (cret' = <<Zero, "false">>) <=> (consumer >= producer)
                /\ cret' = <<Zero, "false">> =>
                      /\ UNCHANGED <<producer, consumer, ring, got>>
                      /\ cpc' = "idle"
                /\ cret' # <<Zero, "false">> => cpc' = "read"
          /\ ConsumerStore =>
                /\ consumer' = consumer + 1
                /\ cret' = <<pubs[consumer + 1], "true">>
                /\ got' = Append(got, pubs[consumer + 1])
                /\ UNCHANGED <<producer, ring>>
          /\ IsPrefix(got', pubs')
          /\ Len(got') = consumer'
          /\ Len(pubs') = producer']_vars

\* A RingBuffer of size 2 whose consumer has taken three items, the third
\* from a reused slot, and then found the buffer empty.
TryConsumeInOrderWitness ==
    /\ kind = "RingBufferTry"
    /\ size = 2
    /\ Len(got) = 3
    /\ got = pubs
    /\ cpc = "idle"
    /\ cret = <<Zero, "false">>

\* C23: on a SingleProducer of any size the k-th Consume to return gives the
\* value of the k-th Produce, however often the sequences wrap around the
\* buffer.
SingleProducerFIFO ==
    kind = "SingleProducer" =>
        /\ Len(got) = consumer
        /\ Len(pubs) = producer
        /\ \A k \in 1..Len(got) : got[k] = <<1, k>>
        /\ cret # <<>> => cret = <<<<1, consumer>>, "true">>

\* A SingleProducer of size 2 that delivered MaxProduce items, wrapping the
\* buffer several times.
SingleProducerFIFOWitness ==
    /\ kind = "SingleProducer"
    /\ size = 2
    /\ Len(got) = MaxProduce
    /\ cpc = "idle"

\* The items the Consume calls have returned.
Consumed == {got[i] : i \in 1..Len(got)}

\* Produce yields exactly when size items are unconsumed at its test, and
\* it neither writes a slot nor returns while they are.
ProduceYieldsOnlyWhenFull ==
    [][kind = "SingleProducer" =>
          /\ ProducerCheck(1) =>
                /\ (ppc'[1] = "yield") <=> (producer - consumer = size)
                /\ ppc'[1] # "yield" => ppc'[1] = "write"
                /\ UNCHANGED <<producer, ring>>
          /\ ProducerYield(1) => UNCHANGED <<producer, ring, pcount>>
          /\ ProducerWrite(1) =>
                /\ producer - consumer < size
                /\ ring[BitAnd(producer + 1, size - 1)] \in {Zero} \cup Consumed
          /\ ProducerStore(1) => producer - consumer < size
          /\ producer' - consumer' \in 0..size]_vars

\* A Produce in progress returns once fewer than size items are unconsumed.
ProduceReturnsOnceRoom ==
    (kind = "SingleProducer" /\ ppc[1] # "idle" /\ producer - consumer < size)
        ~> (ppc[1] = "idle")

\* C24: with size N and no Consume, the first N Produce calls return without
\* yielding; the next Produce yields and neither returns nor overwrites an
\* unconsumed slot until a Consume has completed, after which it returns.
ProduceBackPressure == ProduceYieldsOnlyWhenFull /\ ProduceReturnsOnceRoom

\* A SingleProducer of size 2 whose third Produce yields with nothing consumed.
ProduceBackPressureWitness ==
    /\ kind = "SingleProducer"
    /\ size = 2
    /\ pcount[1] = 2
    /\ producer = 2
    /\ consumer = 0
    /\ ppc[1] = "yield"

\* Consume yields exactly when nothing is published beyond the consumer
\* cursor at its test, and returns the item published with the next sequence.
ConsumeYieldsOnlyWhenEmpty ==
    [][(kind = "SingleProducer" \/ kind = "RingBuffer") =>
          /\ ConsumerCheck =>
                /\ (cpc' = "yield") <=> (consumer >= producer)
                /\ cpc' # "yield" => cpc' = "read"
                /\ UNCHANGED <<consumer, got, cret>>
          /\ ConsumerYield => UNCHANGED <<consumer, got, cret>>
          /\ ConsumerRead => (producer > consumer)
          /\ ConsumerStore =>
                /\ producer > consumer
                /\ cret' = <<pubs[consumer + 1], "true">>
                /\ consumer' = consumer + 1
          /\ consumer' \in {consumer, consumer + 1}]_vars

\* A Consume in progress returns once an item is published beyond the
\* consumer cursor.
ConsumeReturnsOncePublished ==
    (kind \in {"SingleProducer", "RingBuffer"} /\ cpc # "idle"
        /\ consumer < producer)
        ~> (cpc = "idle" /\ cret # <<>>)

\* C25: Consume on an empty buffer yields and does not return until a Produce
\* (Publish) has committed an item; then it returns exactly that item.
ConsumeBlocksOnEmpty == ConsumeYieldsOnlyWhenEmpty /\ ConsumeReturnsOncePublished

\* A RingBuffer whose Consume yields on the empty buffer while the first
\* Publish is about to commit.
ConsumeBlocksOnEmptyWitness ==
    /\ kind = "RingBuffer"
    /\ size = 2
    /\ cpc = "yield"
    /\ producer = 0
    /\ ppc[1] = "store"

\* C26: with several producers and one consumer on a MultiProducer, the items
\* Consume returns are the produced items in the order of their claimed
\* sequences, each once; and Consume never reads a slot not yet written: when
\* published = s every sequence up to s has been written, and the slots of the
\* sequences not yet consumed hold their items.
MultiProducerExactDelivery ==
    kind = "MultiProducer" =>
        /\ IsPrefix(got, pubs)
        /\ Len(got) = consumer
        /\ Len(pubs) = producer
        /\ \A i, j \in 1..Len(got) : got[i] = got[j] => i = j
        /\ consumer <= published
        /\ published <= producer
        /\ \A s \in (consumer + 1)..published : ring[BitAnd(s, size - 1)] = pubs[s]
        /\ \A p \in Producers :
               ppc[p] = "write" => ploc[p].nextProducer > published
        /\ cpc = "store" => cloc.data = pubs[cloc.nextSeq]
        /\ cret # <<>> => cret = <<pubs[consumer], "true">>

\* A MultiProducer of size 2 that delivered every item of both producers, the
\* second producer having claimed the first sequence.
MultiProducerExactDeliveryWitness ==
    /\ kind = "MultiProducer"
    /\ size = 2
    /\ Len(got) = Cardinality(MultiProducers) * MaxMultiProduce
    /\ got[1] = <<2, 1>>
    /\ got[Len(got)] = <<2, MaxMultiProduce>>
    /\ cpc = "idle"

\* C27: Publish on the blocking RingBuffer returns without yielding whenever
\* fewer than size items are unconsumed: it yields only when the sequence it
\* is about to publish lies size or more beyond the consumer cursor it loaded.
PublishYieldsOnlyWhenFull ==
    (kind = "RingBuffer" /\ ppc[1] = "yield") =>
        ploc[1].currentProducer - ploc[1].currentConsumer >= size

\* C28: close propagates strictly downstream.  If a reader's close flag is
\* set, the close flags of all readers of the preceding group are set (the
\* writer's for the first group); hence a set reader flag implies the
\* writer's flag is set.
ClosePropagatesDownstream ==
    \A r \in Readers :
        rcloser[r] =>
            /\ closer
            /\ \A u \in Readers : GroupOf(u) = GroupOf(r) - 1 => rcloser[u]

\* A reader of a second group has closed behind a first group of two readers.
ClosePropagatesWitness ==
    /\ groups = <<2, 1>>
    /\ writeCursor >= 2
    /\ rcloser[3]
    /\ cursor[3] = writeCursor

\* C29: gating on the tail suffices.  For consecutive groups the minimum
\* cursor of group g is at least the minimum cursor of group g + 1, so the
\* minimum of the last group is a lower bound on every reader's cursor.
GatingOnTailSuffices ==
    /\ \A g \in 1..(NumGroups - 1) : GroupMin(g) >= GroupMin(g + 1)
    /\ \A r \in Readers : GroupMin(NumGroups) <= cursor[r]

\* The last group lags behind a first group whose two readers differ, while
\* the writer waits on it.
GatingOnTailWitness ==
    /\ groups = <<2, 1>>
    /\ wpc = "wait"
    /\ GroupMin(1) > GroupMin(2)
    /\ GroupMin(2) >= 1
    /\ cursor[1] # cursor[2]

\* C30: WriteBatch hands out exactly the reserved range.  For every n for
\* which WriteBatch does not fail, the two ranges handed to the callback have
\* n slots in all, they are the slots of the sequences shadow + 1 .. shadow + n
\* in order, none of them holds an item some reader has not yet processed, and
\* the commit stores shadow + n into the write cursor.
BatchHandsOutReservedRange ==
    [][(wop = "WriteBatch" =>
          /\ WriterCallback =>
                /\ Len(WriterSlots) = wn
                /\ \A k \in 1..Len(WriterSlots) :
                       /\ WriterSlots[k] = BitAnd(currentWriter + k, capacity - 1)
                       /\ \A r \in Readers : Seen(r) >= buffer[WriterSlots[k]]
          /\ Commit => writeCursor' = currentWriter + wn)]_vars

-----------------------------------------------------------------------------
\* Properties of the barriers, the batch readers and the writer's cached values.

MinimumBarrierIsMinimum ==
    result # <<>> =>
        /\ \E i \in 1..Len(args) : result[1] = args[i]
        /\ \A i \in 1..Len(args) : result[1] <= args[i]

\* Load has answered for a group of three whose smallest cursor is the last,
\* the first being the largest.
MinimumBarrierWitness ==
    /\ result # <<>>
    /\ Len(args) = 3
    /\ args[3] < args[2]
    /\ args[2] < args[1]
    /\ result[1] = args[3]

\* C33: MinimumBarrier.Load under concurrency.  Load reads the cursors of the
\* group one at a time while the readers advance them; the value it returns
\* is never greater than the minimum of the group's cursors at the moment it
\* returns, and never less than their minimum at the moment it started.
\* Stated for the Loads of the readers and for the Load of the writer.
LoadBetweenStartAndReturn ==
    [][/\ \A r \in Readers :
              (ReaderLoad(r) /\ ridx[r] = BarrierLen(GroupOf(r) - 1)) =>
                  /\ upstream'[r] <= BarrierMinimum(GroupOf(r) - 1)
                  /\ upstream'[r] >=
                         (IF ridx[r] = 1
                          THEN BarrierMinimum(GroupOf(r) - 1) ELSE loadStart[r])
       /\ (ReserveWait /\ wload[1] = BarrierLen(NumGroups)) =>
              /\ slowestReader' <= BarrierMinimum(NumGroups)
              /\ slowestReader' >=
                     (IF wload[1] = 1
                      THEN BarrierMinimum(NumGroups) ELSE loadStart[0])]_vars

\* A reader of the second group is in the middle of a Load over a first group
\* of two readers: the cursor it has read has advanced since, and so has the
\* minimum of the group since the Load started.
LoadBetweenWitness ==
    /\ groups = <<2, 1>>
    /\ rpc[3] \in {"load1", "load2"}
    /\ ridx[3] = 2
    /\ loadStart[3] >= 1
    /\ BarrierMinimum(1) > loadStart[3]
    /\ cursor[1] > upstream[3]

\* C34: the writer's cached barrier is a safe lower bound.  The cached
\* slowestReader is at most the current value of the read barrier (the
\* minimum cursor of the last group) and never decreases, so a reserve that
\* does not wait on the cached value would not wait on the fresh one.
CachedBarrierIsLowerBound ==
    [][/\ slowestReader' >= slowestReader
       /\ \A r \in Readers :
              GroupOf(r) = NumGroups => slowestReader' <= cursor'[r]
       /\ wpc' = "callback" =>
              ~(nextWriter' >= BarrierMinimum(NumGroups)' + capacity)]_vars

\* The writer passed reserve on a cached value that the last group has left
\* behind since.
CachedBarrierWitness ==
    /\ groups = <<1, 2>>
    /\ wpc = "callback"
    /\ slowestReader >= 1
    /\ slowestReader < BarrierMinimum(NumGroups)
    /\ nextWriter > capacity

\* C35: validation precedence.  When a Builder violates several rules at
\* once, Build reports ErrCapacity in preference to ErrMissingReaderGroup and
\* to ErrEmptyReaderGroup; the error is a function of the capacity and the
\* group sizes alone, whatever the yield overrides.
ValidationPrecedence ==
    Len(result) = 4 =>
        /\ result[2] =
              (IF capacity <= 0 \/ ~PowerOfTwo(capacity) THEN "ErrCapacity"
               ELSE IF Len(groups) = 0 THEN "ErrMissingReaderGroup"
               ELSE IF \E g \in 1..Len(groups) : groups[g] = 0
                    THEN "ErrEmptyReaderGroup"
               ELSE "nil")
        /\ (result[1] = "nil") <=> (result[2] # "nil")

\* Build has answered ErrCapacity for a Builder with both yields overridden,
\* a capacity that is no power of two and an empty reader group.
ValidationPrecedenceWitness ==
    /\ Len(result) = 4
    /\ args = <<"override", "override">>
    /\ capacity = 6
    /\ groups = <<1, 0>>
    /\ result[2] = "ErrCapacity"

\* C36: the MultiProducer never overwrites unconsumed data.  With concurrent
\* producers, consumer <= published <= producer and producer - consumer <= size
\* in every state, and a producer writes a slot only after the item that
\* occupied it has been returned by Consume.
MultiProducerNeverOverwrites ==
    kind = "MultiProducer" =>
        /\ consumer <= published
        /\ published <= producer
        /\ producer - consumer <= size
        /\ \A p \in Producers :
               ppc[p] = "write" =>
                   /\ ploc[p].nextProducer - size <= Len(got)
                   /\ ploc[p].nextProducer - size <= consumer
                   /\ \A q \in Producers \ {p} :
                          ppc[q] = "write" =>
                              ploc[q].nextProducer # ploc[p].nextProducer
        /\ \A i \in 0..(size - 1) : ring[i] # Torn

\* A MultiProducer of size 2 is full after a wrap: two producers wait at
\* yield while both slots hold claimed, unconsumed items.
MultiProducerFullWitness ==
    /\ kind = "MultiProducer"
    /\ size = 2
    /\ consumer >= 1
    /\ producer - consumer = size
    /\ published = producer
    /\ \E p \in Producers : ppc[p] = "yield" /\ ploc[p].currentConsumer = consumer

\* The Produce calls made so far, returned or in progress.
ProduceCallsMade ==
    Len(pubs) + Cardinality({p \in Producers : ppc[p] \in {"load", "check", "yield", "claim"}})

\* C37: MultiProducer progress.  With finitely many Produce calls spread over
\* several producers and a consumer that makes as many Consume calls, under
\* fair scheduling every Produce call, its wait in updatePublished included,
\* and every Consume call eventually returns.
MultiProducerProgress ==
    /\ \A p \in MultiProducers : (ppc[p] # "idle") ~> (ppc[p] = "idle")
    /\ \A p \in MultiProducers :
           (ppc[p] = "pubyield") ~> (published >= ploc[p].nextProducer)
    /\ (cpc # "idle" /\ consumer < ProduceCallsMade)
           ~> (cpc = "idle" /\ cret # <<>>)

\* A producer has written its item and waits in updatePublished for the
\* producer of the sequence before its own, which has not written yet.
MultiProducerProgressWitness ==
    /\ kind = "MultiProducer"
    /\ \E p, q \in Producers :
           /\ ppc[p] = "pubyield"
           /\ ppc[q] = "write"
           /\ ploc[p].nextProducer = ploc[q].nextProducer + 1
           /\ published < ploc[q].nextProducer

\* C38: writer shadow coherence.  Whenever no Write / WriteBatch is in
\* progress the writer's currentWriter equals the write cursor; a call that
\* panics leaves both as they were; a successful Write advances both by 1 and
\* a successful WriteBatch(n) by n, and nothing else changes either.
WriterShadowCoherence ==
    [][/\ wpc' = "idle" => currentWriter' = writeCursor'
       /\ (wpc = "idle" /\ wpc' = "idle") =>
              UNCHANGED <<writeCursor, currentWriter>>
       /\ Commit =>
              /\ wop = "Write" => wn = 1
              /\ writeCursor' = writeCursor + wn
              /\ currentWriter' = currentWriter + wn
       /\ wpc # "commit" => UNCHANGED <<writeCursor, currentWriter>>]_vars

\* A call on the closed Disruptor has panicked after two items were
\* committed: both values are still 2.
WriterShadowWitness ==
    /\ wpc = "idle"
    /\ closer
    /\ werr \in {"WriteAfterClose", "BatchTooLarge"}
    /\ writeCursor = 2
    /\ currentWriter = 2

====
